---- MODULE Spec2Model ----
(***************************************************************************)
(* Model of pkg/catalog/ingress.go (ns11/osm): the translation of          *)
(* Kubernetes Ingress resources (networking/v1 and networking/v1beta1)     *)
(* into the mesh's inbound traffic policies.                               *)
(*                                                                         *)
(* Strings whose characters matter (ingress paths, route patterns, request *)
(* paths) are sequences of one-character strings; names that are only      *)
(* compared (hostnames, service names, protocols) are TLA+ strings.        *)
(*                                                                         *)
(* Three specifications share the definitions:                             *)
(*   SpecPath    the path translation of one ingress path and the match    *)
(*               of a request path against the route it produced;          *)
(*   SpecExtract one run of a schema-version extractor over the ingress    *)
(*               objects its provider returned;                            *)
(*   Spec        getIngressTrafficPolicyFromK8s, called again and again    *)
(*               for the same service against the same cluster state.      *)
(***************************************************************************)
EXTENDS Integers, Sequences, FiniteSets, TLC

VARIABLES
    tr,        \* SpecPath: the translation under way
    ext,       \* SpecExtract: the extractor run under way
    cluster,   \* Spec: what the ingress monitor, the port resolver and the
               \* configurator answer for the service
    asm,       \* Spec: the call of getIngressTrafficPolicyFromK8s under way
    last       \* Spec: what the previous call returned

vars == <<tr, ext, cluster, asm, last>>

----------------------------------------------------------------------------
(* Bounds *)

\* Longest ingress path drawn in SpecPath.
MaxLen == 3

\* Longest text appended to the ingress path to form a request path.
MaxExtra == 2

\* Largest provider answer drawn in SpecExtract: its ingress objects, their
\* rules and the rules' paths, counted together.
MaxSnapshotSize == 5

\* Largest cluster state drawn in Spec: the ingress objects of both versions
\* with their rules and paths, and the service's ports, counted together.
MaxClusterSize == 4

----------------------------------------------------------------------------
(* Strings *)

\* The characters ingress paths and request paths are drawn from: the path
\* separator, a letter, and characters that are regex operators.
Chars == {"/", "a", ".", "*", "+"}

RECURSIVE StringsOfLen(_)
StringsOfLen(n) ==
    IF n = 0 THEN {<<>>}
    ELSE {<<c>> \o s : c \in Chars, s \in StringsOfLen(n - 1)}

StringsUpTo(n) == UNION {StringsOfLen(k) : k \in 0..n}

\* strings.TrimRight(s, "/")
RECURSIVE TrimRight(_)
TrimRight(s) ==
    IF Len(s) > 0 /\ s[Len(s)] = "/" THEN TrimRight(SubSeq(s, 1, Len(s) - 1))
    ELSE s

\* strings.ContainsAny(s, chars)
ContainsAny(s, chars) == \E i \in 1..Len(s) : s[i] \in chars

HasPrefix(s, p) == Len(p) <= Len(s) /\ SubSeq(s, 1, Len(p)) = p

HasSuffix(s, p) ==
    Len(p) <= Len(s) /\ SubSeq(s, Len(s) - Len(p) + 1, Len(s)) = p

----------------------------------------------------------------------------
(* Constants of the package *)

\* `(/.*)?$`
prefixMatchPathElementsRegex == <<"(", "/", ".", "*", ")", "?", "$">>

\* `^$*+[]%|`
commonRegexChars == {"^", "$", "*", "+", "[", "]", "%", "|"}

\* networking PathType values; Nil is the unset *PathType, Bogus a value
\* outside the three the API defines.
PathTypeExact == "Exact"
PathTypePrefix == "Prefix"
PathTypeImplementationSpecific == "ImplementationSpecific"
PathTypeNil == "nil"
PathTypeBogus == "Bogus"
PathTypes ==
    {PathTypeExact, PathTypePrefix, PathTypeImplementationSpecific,
     PathTypeNil, PathTypeBogus}

PathMatchExact == "PathMatchExact"
PathMatchPrefix == "PathMatchPrefix"
PathMatchRegex == "PathMatchRegex"

WildcardHTTPMethod == "*"

----------------------------------------------------------------------------
(* Path Match Translator: the switch on the path type *)

\* A mutant: the trailing "/" characters are kept.
PrefixRouteNoTrim(path) ==
    IF path = <<"/">>
    THEN [Path |-> path, PathMatchType |-> PathMatchPrefix]
    ELSE [Path |-> path \o prefixMatchPathElementsRegex,
          PathMatchType |-> PathMatchRegex]

\* case PathTypePrefix
PrefixRoute(path) ==
    IF path = <<"/">>
    THEN [Path |-> path, PathMatchType |-> PathMatchPrefix]
    ELSE [Path |-> TrimRight(path) \o prefixMatchPathElementsRegex,
          PathMatchType |-> PathMatchRegex]

\* The route match of one ingress path, or ok = FALSE when the switch takes
\* its default branch (the path is logged and skipped).
HTTPRouteMatchOf(path, declaredType) ==
    LET pathType == IF declaredType = PathTypeNil
                    THEN PathTypeImplementationSpecific
                    ELSE declaredType
    IN  CASE pathType = PathTypeExact ->
               [ok |-> TRUE, Path |-> path, PathMatchType |-> PathMatchExact,
                Methods |-> <<WildcardHTTPMethod>>]
          [] pathType = PathTypePrefix ->
               [ok |-> TRUE, Path |-> PrefixRoute(path).Path,
                PathMatchType |-> PrefixRoute(path).PathMatchType,
                Methods |-> <<WildcardHTTPMethod>>]
          [] pathType = PathTypeImplementationSpecific ->
               [ok |-> TRUE, Path |-> path,
                PathMatchType |-> IF ContainsAny(path, commonRegexChars)
                                  THEN PathMatchRegex
                                  ELSE PathMatchPrefix,
                Methods |-> <<WildcardHTTPMethod>>]
          [] OTHER ->
               [ok |-> FALSE, Path |-> <<>>, PathMatchType |-> "none",
                Methods |-> <<>>]

----------------------------------------------------------------------------
(* The match of a request path against a route, as the proxy evaluates the *)
(* route: an exact route by equality, a prefix route by string prefix, a   *)
(* regex route by a match of the whole request path against the pattern.   *)

RegexQuantifiers == {"*", "+"}

\* The pattern without the `(/.*)?$` group when it ends with it.
RegexHead(pattern) ==
    IF HasSuffix(pattern, prefixMatchPathElementsRegex)
    THEN SubSeq(pattern, 1, Len(pattern) - Len(prefixMatchPathElementsRegex))
    ELSE pattern

\* regexp.Compile rejects a repetition operator with nothing to repeat and a
\* repetition of a repetition.
RegexCompiles(head) ==
    \A i \in 1..Len(head) :
        head[i] \in RegexQuantifiers =>
            i > 1 /\ head[i - 1] \notin RegexQuantifiers

AtomMatches(atom, c) == atom = "." \/ atom = c

\* Whether head[i..] followed by the tail matches s[j..] to its end. The tail
\* is `(/.*)?$` (nothing, or "/" and anything) when grouped, `` otherwise.
RECURSIVE RegexMatchFrom(_, _, _, _, _)
RegexMatchFrom(head, i, s, j, grouped) ==
    IF i > Len(head)
    THEN j = Len(s) + 1 \/ (grouped /\ j <= Len(s) /\ s[j] = "/")
    ELSE LET q == IF i < Len(head) /\ head[i + 1] \in RegexQuantifiers
                  THEN head[i + 1] ELSE "1"
             here == j <= Len(s) /\ AtomMatches(head[i], s[j])
         IN  CASE q = "1" ->
                    here /\ RegexMatchFrom(head, i + 1, s, j + 1, grouped)
               [] q = "*" ->
                    \/ RegexMatchFrom(head, i + 2, s, j, grouped)
                    \/ here /\ RegexMatchFrom(head, i, s, j + 1, grouped)
               [] q = "+" ->
                    here /\ (\/ RegexMatchFrom(head, i + 2, s, j + 1, grouped)
                             \/ RegexMatchFrom(head, i, s, j + 1, grouped))

RegexMatches(pattern, s) ==
    /\ RegexCompiles(RegexHead(pattern))
    /\ RegexMatchFrom(RegexHead(pattern), 1, s, 1,
                      HasSuffix(pattern, prefixMatchPathElementsRegex))

RouteMatches(route, req) ==
    CASE route.PathMatchType = PathMatchExact -> req = route.Path
      [] route.PathMatchType = PathMatchPrefix -> HasPrefix(req, route.Path)
      [] route.PathMatchType = PathMatchRegex -> RegexMatches(route.Path, req)
      [] OTHER -> FALSE

----------------------------------------------------------------------------
(* SpecPath: translate one ingress path, then match one request path *)

IdleTr == [pc |-> "idle"]
IdleExt == [pc |-> "idle"]
IdleCluster == [pc |-> "idle"]
IdleAsm == [pc |-> "idle"]
NoCall == [called |-> FALSE]

InitPath ==
    /\ tr \in {[pc |-> "declared", path |-> p, pathType |-> t] :
                  p \in StringsUpTo(MaxLen), t \in PathTypes}
    /\ ext = IdleExt
    /\ cluster = IdleCluster /\ asm = IdleAsm /\ last = NoCall

\* The switch of the extractor's inner loop on one ingress path.
Translate ==
    /\ tr.pc = "declared"
    /\ tr' = [pc |-> "translated", path |-> tr.path, pathType |-> tr.pathType,
              route |-> HTTPRouteMatchOf(tr.path, tr.pathType)]
    /\ UNCHANGED <<ext, cluster, asm, last>>

\* A request for the ingress path followed by some text reaches the route.
MatchRequest ==
    /\ tr.pc = "translated"
    /\ tr.route.ok
    /\ \E x \in StringsUpTo(MaxExtra) :
          tr' = [pc |-> "matched", path |-> tr.path, pathType |-> tr.pathType,
                 route |-> tr.route, extra |-> x,
                 verdict |-> RouteMatches(tr.route, tr.path \o x)]
    /\ UNCHANGED <<ext, cluster, asm, last>>

NextPath == Translate \/ MatchRequest

SpecPath == InitPath /\ [][NextPath]_vars

----------------------------------------------------------------------------
(* Ingress objects as the ingress monitor returns them. Both schema        *)
(* versions carry the same data: an optional default backend and rules,    *)
(* each rule a host and paths, each path a path, a path type and a backend *)
(* service.                                                                *)

\* svc.Name, and the name of some other service.
SvcName == "svc"
OtherName == "other"

NoBackend == "nil"

\* rule.Host values: unset, and a host name.
Hosts == {"", "a.com"}

IngressPaths ==
    {[Path |-> <<"/", "a">>, PathType |-> PathTypePrefix, Backend |-> SvcName],
     [Path |-> <<"/", "a">>, PathType |-> PathTypeExact, Backend |-> SvcName],
     [Path |-> <<"/", "a">>, PathType |-> PathTypeBogus, Backend |-> SvcName],
     [Path |-> <<"/", "a">>, PathType |-> PathTypePrefix, Backend |-> OtherName]}

RECURSIVE IngressPathLists(_)
IngressPathLists(n) ==
    IF n = 0 THEN {<<>>}
    ELSE {<<e>> \o r : e \in IngressPaths, r \in IngressPathLists(n - 1)}

\* The rules of size w: the rule and its w - 1 paths.
IngressRulesOfSize(w) ==
    {[Host |-> h, Paths |-> ps] : h \in Hosts, ps \in IngressPathLists(w - 1)}

RECURSIVE IngressRuleLists(_)
IngressRuleLists(w) ==
    IF w = 0 THEN {<<>>}
    ELSE UNION {{<<r>> \o rest : r \in IngressRulesOfSize(k),
                                 rest \in IngressRuleLists(w - k)} : k \in 1..w}

IngressesOfSize(w) ==
    {[DefaultBackend |-> b, Rules |-> rs] :
        b \in {NoBackend, SvcName, OtherName}, rs \in IngressRuleLists(w - 1)}

\* The lists of ingress objects of size w; an object's name is its place in
\* the list (names are unique in a namespace).
RECURSIVE IngressLists(_)
IngressLists(w) ==
    IF w = 0 THEN {<<>>}
    ELSE UNION {{<<o>> \o rest : o \in IngressesOfSize(k),
                                 rest \in IngressLists(w - k)} : k \in 1..w}

\* What mc.ingressMonitor.GetIngressNetworkingV1(svc) (or V1beta1) returns:
\* an error, or ingress objects.
FetchError == [err |-> TRUE, ingresses |-> <<>>]

FetchesOfSize(w) ==
    {[err |-> FALSE, ingresses |-> l] : l \in IngressLists(w)}
        \cup (IF w = 0 THEN {FetchError} ELSE {})

FetchesUpTo(w) == UNION {FetchesOfSize(k) : k \in 0..w}

----------------------------------------------------------------------------
(* package trafficpolicy, as the extractors use it *)

\* trafficpolicy.WildCardRouteMatch
WildCardRouteMatch ==
    [ok |-> TRUE, Path |-> <<".", "*">>, PathMatchType |-> PathMatchRegex,
     Methods |-> <<WildcardHTTPMethod>>]

\* identity.WildcardServiceIdentity
WildcardServiceIdentity == "*"

\* getDefaultWeightedClusterForService(svc)
ingressWeightedCluster == [ClusterName |-> SvcName, Weight |-> 100]

\* trafficpolicy.NewRouteWeightedCluster(match, clusters) with the identity
\* the rule is added for.
NewRule(match) ==
    [Route |-> [HTTPRouteMatch |-> match,
                WeightedClusters |-> {ingressWeightedCluster}],
     AllowedServiceIdentities |-> {WildcardServiceIdentity}]

\* trafficpolicy.NewInboundTrafficPolicy(name, hostnames)
NewInboundTrafficPolicy(name, hostnames) ==
    [Name |-> name, Hostnames |-> hostnames, Rules |-> <<>>]

\* (*InboundTrafficPolicy).AddRule: the rule is appended.
AddRule(policy, rule) == [policy EXCEPT !.Rules = Append(@, rule)]

HostnameSet(policy) == {policy.Hostnames[i] : i \in 1..Len(policy.Hostnames)}

\* The candidate's hostnames overlap an existing policy's without being the
\* same set.
PartialOverlap(original, latest) ==
    /\ \A i \in 1..Len(original) :
          HostnameSet(original[i]) # HostnameSet(latest)
    /\ \E i \in 1..Len(original) :
          HostnameSet(original[i]) \cap HostnameSet(latest) # {}

\* trafficpolicy.MergeInboundPolicies(DisallowPartialHostnamesMatch,
\* original, latest): the candidate's rules are appended to the policy with
\* the same hostnames, or the candidate is appended as a new policy when its
\* hostnames are disjoint from every policy's; a partial overlap fails, and
\* the list stays as it was.
MergeInboundPolicies(original, latest) ==
    IF \E i \in 1..Len(original) :
          HostnameSet(original[i]) = HostnameSet(latest)
    THEN [failed |-> FALSE,
          policies |->
             [i \in 1..Len(original) |->
                 IF HostnameSet(original[i]) = HostnameSet(latest)
                 THEN [original[i] EXCEPT !.Rules = @ \o latest.Rules]
                 ELSE original[i]]]
    ELSE IF PartialOverlap(original, latest)
         THEN [failed |-> TRUE, policies |-> original]
         ELSE [failed |-> FALSE, policies |-> Append(original, latest)]

----------------------------------------------------------------------------
(* The schema-version extractors *)

\* fmt.Sprintf("%s.%s|%s", name, namespace, host)
getIngressTrafficPolicyName(name, namespace, host) ==
    <<name, ".", namespace, "|", host>>

IngressNamespace == "ns"

\* domain := rule.Host; if domain == "" { domain = constants.WildcardHTTPMethod }
DomainOf(host) == IF host = "" THEN WildcardHTTPMethod ELSE host

\* A mutant: the loop over a rule's paths ends at the first path that is
\* skipped (break for continue).
RECURSIVE RangePathsBreak(_, _, _)
RangePathsBreak(paths, k, ingressPolicy) ==
    IF k > Len(paths) THEN ingressPolicy
    ELSE LET ingressPath == paths[k]
             httpRouteMatch ==
                 HTTPRouteMatchOf(ingressPath.Path, ingressPath.PathType)
         IN  IF ingressPath.Backend # SvcName \/ ~httpRouteMatch.ok
             THEN ingressPolicy
             ELSE RangePathsBreak(paths, k + 1,
                                  AddRule(ingressPolicy, NewRule(httpRouteMatch)))

\* for _, ingressPath := range rule.HTTP.Paths, from the k-th path on: a path
\* of another service and a path of unknown type are skipped, every other
\* path adds a rule to ingressPolicy.
RECURSIVE RangePaths(_, _, _)
RangePaths(paths, k, ingressPolicy) ==
    IF k > Len(paths) THEN ingressPolicy
    ELSE LET ingressPath == paths[k]
             httpRouteMatch ==
                 HTTPRouteMatchOf(ingressPath.Path, ingressPath.PathType)
         IN  IF ingressPath.Backend # SvcName
             THEN RangePaths(paths, k + 1, ingressPolicy)
             ELSE IF ~httpRouteMatch.ok
                  THEN RangePaths(paths, k + 1, ingressPolicy)
                  ELSE RangePaths(paths, k + 1,
                                  AddRule(ingressPolicy, NewRule(httpRouteMatch)))

\* The call of MergeInboundPolicies at a call site, which assigns the list
\* it returns; acc.ambiguous records that a merge failed.
Merged(acc, policy) ==
    LET m == MergeInboundPolicies(acc.policies, policy)
    IN  [policies |-> m.policies, ambiguous |-> acc.ambiguous \/ m.failed]

\* A mutant: the policy of a rule is merged even when it has no rules.
CommitAlways(acc, ingressPolicy) == Merged(acc, ingressPolicy)

\* if len(ingressPolicy.Rules) > 0 { ... MergeInboundPolicies ... }
Commit(acc, ingressPolicy) ==
    IF Len(ingressPolicy.Rules) > 0 THEN Merged(acc, ingressPolicy) ELSE acc

\* for _, rule := range ingress.Spec.Rules, from the j-th rule on.
RECURSIVE RangeRules(_, _, _, _)
RangeRules(name, rules, j, acc) ==
    IF j > Len(rules) THEN acc
    ELSE LET domain == DomainOf(rules[j].Host)
             ingressPolicy ==
                 RangePaths(rules[j].Paths, 1,
                     NewInboundTrafficPolicy(
                         getIngressTrafficPolicyName(name, IngressNamespace, domain),
                         <<domain>>))
         IN  RangeRules(name, rules, j + 1, Commit(acc, ingressPolicy))

\* The wildcard policy of an ingress object whose default backend is svc.
WildcardIngressPolicy(name) ==
    AddRule(NewInboundTrafficPolicy(
                getIngressTrafficPolicyName(name, IngressNamespace, WildcardHTTPMethod),
                <<WildcardHTTPMethod>>),
            NewRule(WildCardRouteMatch))

\* for _, ingress := range ingresses, from the i-th object on.
RECURSIVE RangeIngresses(_, _, _)
RangeIngresses(ingresses, i, acc) ==
    IF i > Len(ingresses) THEN acc
    ELSE LET ingress == ingresses[i]
             withDefault ==
                 IF ingress.DefaultBackend # NoBackend
                    /\ ingress.DefaultBackend = SvcName
                 THEN Merged(acc, WildcardIngressPolicy(i))
                 ELSE acc
         IN  RangeIngresses(ingresses, i + 1,
                            RangeRules(i, ingress.Rules, 1, withDefault))

NoPolicies == [policies |-> <<>>, ambiguous |-> FALSE]

\* getIngressPoliciesNetworkingV1(svc), given what the ingress monitor returns.
getIngressPoliciesNetworkingV1(fetch) ==
    IF fetch.err
    THEN [policies |-> <<>>, err |-> TRUE, ambiguous |-> FALSE]
    ELSE IF Len(fetch.ingresses) = 0
         THEN [policies |-> <<>>, err |-> FALSE, ambiguous |-> FALSE]
         ELSE LET acc == RangeIngresses(fetch.ingresses, 1, NoPolicies)
              IN  [policies |-> acc.policies, err |-> FALSE,
                   ambiguous |-> acc.ambiguous]

\* getIngressPoliciesNetworkingV1beta1(svc): the same walk over the v1beta1
\* objects (Spec.Backend.ServiceName for Spec.DefaultBackend.Service.Name,
\* Backend.ServiceName for Backend.Service.Name).
getIngressPoliciesNetworkingV1beta1(fetch) ==
    IF fetch.err
    THEN [policies |-> <<>>, err |-> TRUE, ambiguous |-> FALSE]
    ELSE IF Len(fetch.ingresses) = 0
         THEN [policies |-> <<>>, err |-> FALSE, ambiguous |-> FALSE]
         ELSE LET acc == RangeIngresses(fetch.ingresses, 1, NoPolicies)
              IN  [policies |-> acc.policies, err |-> FALSE,
                   ambiguous |-> acc.ambiguous]

----------------------------------------------------------------------------
(* SpecExtract: one extractor run *)

Versions == {"v1", "v1beta1"}

InitExtract ==
    /\ \E v \in Versions, w \in 0..MaxSnapshotSize :
          \E f \in FetchesOfSize(w) :
             ext = [pc |-> "called", version |-> v, fetch |-> f]
    /\ tr = IdleTr
    /\ cluster = IdleCluster /\ asm = IdleAsm /\ last = NoCall

ExtractV1 ==
    /\ ext.pc = "called"
    /\ ext.version = "v1"
    /\ ext' = [pc |-> "returned", version |-> ext.version, fetch |-> ext.fetch,
               out |-> getIngressPoliciesNetworkingV1(ext.fetch)]
    /\ UNCHANGED <<tr, cluster, asm, last>>

ExtractV1beta1 ==
    /\ ext.pc = "called"
    /\ ext.version = "v1beta1"
    /\ ext' = [pc |-> "returned", version |-> ext.version, fetch |-> ext.fetch,
               out |-> getIngressPoliciesNetworkingV1beta1(ext.fetch)]
    /\ UNCHANGED <<tr, cluster, asm, last>>

NextExtract == ExtractV1 \/ ExtractV1beta1

SpecExtract == InitExtract /\ [][NextExtract]_vars

----------------------------------------------------------------------------
(* The assembler *)

\* constants.ProtocolHTTP, constants.ProtocolHTTPS, and a protocol that is
\* neither.
ProtocolHTTP == "http"
ProtocolHTTPS == "https"
ProtocolTCP == "tcp"

\* svc.ServerName()
ServerName == "svc.ns.svc.cluster.local"

\* What mc.GetTargetPortToProtocolMappingForService(svc) returns: an error,
\* or the protocol of each of the service's k ports.
ResolverAnswersOfSize(k) ==
    {[err |-> FALSE, protocolToPortMap |-> m] :
        m \in [1..k -> {ProtocolHTTP, ProtocolTCP}]}
        \cup (IF k = 0 THEN {[err |-> TRUE, protocolToPortMap |-> <<>>]} ELSE {})

\* A mutant: the error of the v1 extractor is returned to the caller.
getIngressPoliciesFromK8sFailing(v1, v1beta1) ==
    LET v1Policies == getIngressPoliciesNetworkingV1(v1)
        v1beta1Policies == getIngressPoliciesNetworkingV1beta1(v1beta1)
    IN  IF v1Policies.err
        THEN [policies |-> <<>>, err |-> TRUE]
        ELSE [policies |-> v1Policies.policies \o
                 (IF v1beta1Policies.err THEN <<>> ELSE v1beta1Policies.policies),
              err |-> FALSE]

\* getIngressPoliciesFromK8s(svc), given what the ingress monitor returns for
\* the two versions: the policies of the versions whose extractor returned
\* no error, appended; the error returned is always nil.
getIngressPoliciesFromK8s(v1, v1beta1) ==
    LET v1Policies == getIngressPoliciesNetworkingV1(v1)
        v1beta1Policies == getIngressPoliciesNetworkingV1beta1(v1beta1)
        afterV1 == IF v1Policies.err THEN <<>> ELSE <<>> \o v1Policies.policies
        afterV1beta1 == IF v1beta1Policies.err THEN afterV1
                        ELSE afterV1 \o v1beta1Policies.policies
    IN  [policies |-> afterV1beta1, err |-> FALSE]

\* A mutant: the test for no routes is gone.
NoRoutesNever(httpRoutePolicies) == FALSE

\* httpRoutePolicies == nil (a slice nothing was appended to is nil)
NoRoutes(httpRoutePolicies) == httpRoutePolicies = <<>>

\* fmt.Sprintf("ingress_%s_%d_%s", svc, port, protocol), and the same with
\* "_with_sni": the parts that "_" joins.
TrafficMatchName(port, protocol) == <<"ingress", SvcName, port, protocol>>
TrafficMatchNameWithSNI(port, protocol) ==
    <<"ingress", SvcName, port, protocol, "with", "sni">>

\* A mutant: the match with SNI is the match without it, changed in place,
\* so the server names show in both.
TrafficMatchesOfPortAliased(port, appProtocol, enableHTTPSIngress) ==
    IF appProtocol # ProtocolHTTP THEN <<>>
    ELSE IF enableHTTPSIngress
         THEN LET m == [Name |-> TrafficMatchNameWithSNI(port, ProtocolHTTPS),
                        Port |-> port, Protocol |-> ProtocolHTTPS,
                        SkipClientCertValidation |-> TRUE,
                        ServerNames |-> <<ServerName>>]
              IN  <<m, m>>
         ELSE <<[Name |-> TrafficMatchName(port, ProtocolHTTP), Port |-> port,
                 Protocol |-> ProtocolHTTP, SkipClientCertValidation |-> FALSE,
                 ServerNames |-> <<>>]>>

\* The body of the loop over protocolToPortMap: the traffic matches one port
\* appends.
TrafficMatchesOfPort(port, appProtocol, enableHTTPSIngress) ==
    IF appProtocol # ProtocolHTTP THEN <<>>
    ELSE LET trafficMatch ==
                 [Name |-> <<>>, Port |-> port, Protocol |-> "",
                  SkipClientCertValidation |-> FALSE, ServerNames |-> <<>>]
         IN  IF enableHTTPSIngress
             THEN LET withoutSNI ==
                          [trafficMatch EXCEPT
                              !.Name = TrafficMatchName(port, ProtocolHTTPS),
                              !.Protocol = ProtocolHTTPS,
                              !.SkipClientCertValidation = TRUE]
                      trafficMatchWithSNI ==
                          [withoutSNI EXCEPT
                              !.Name = TrafficMatchNameWithSNI(port, ProtocolHTTPS),
                              !.ServerNames = <<ServerName>>]
                  IN  <<withoutSNI, trafficMatchWithSNI>>
             ELSE <<[trafficMatch EXCEPT
                        !.Name = TrafficMatchName(port, ProtocolHTTP),
                        !.Protocol = ProtocolHTTP]>>

NilPolicy == [nil |-> TRUE]

Returned(policy, err) == [policy |-> policy, err |-> err]

StartOfCall ==
    [pc |-> "start", httpRoutePolicies |-> <<>>, consulted |-> FALSE,
     remaining |-> {}, trafficMatches |-> <<>>]

Init ==
    /\ \E i, j, k \in 0..MaxClusterSize :
          /\ i + j + k <= MaxClusterSize
          /\ \E a \in FetchesOfSize(i), b \in FetchesOfSize(j),
                r \in ResolverAnswersOfSize(k), t \in BOOLEAN :
                cluster = [v1 |-> a, v1beta1 |-> b, resolver |-> r,
                           useHTTPSIngress |-> t]
    /\ asm = StartOfCall
    /\ last = NoCall
    /\ tr = IdleTr /\ ext = IdleExt

\* httpRoutePolicies, err := mc.getIngressPoliciesFromK8s(svc)
GetRoutes ==
    /\ asm.pc = "start"
    /\ LET r == getIngressPoliciesFromK8s(cluster.v1, cluster.v1beta1)
       IN  asm' = IF r.err
                  THEN [pc |-> "done", httpRoutePolicies |-> <<>>,
                        consulted |-> FALSE, remaining |-> {},
                        trafficMatches |-> <<>>,
                        result |-> Returned(NilPolicy, TRUE)]
                  ELSE [asm EXCEPT !.pc = "routes",
                                   !.httpRoutePolicies = r.policies]
    /\ UNCHANGED <<cluster, last, tr, ext>>

\* if httpRoutePolicies == nil { return nil, nil }
ReturnNoRoutes ==
    /\ asm.pc = "routes"
    /\ NoRoutes(asm.httpRoutePolicies)
    /\ asm' = [pc |-> "done", httpRoutePolicies |-> asm.httpRoutePolicies,
               consulted |-> asm.consulted, remaining |-> {},
               trafficMatches |-> <<>>, result |-> Returned(NilPolicy, FALSE)]
    /\ UNCHANGED <<cluster, last, tr, ext>>

\* protocolToPortMap, err := mc.GetTargetPortToProtocolMappingForService(svc)
Resolve ==
    /\ asm.pc = "routes"
    /\ ~NoRoutes(asm.httpRoutePolicies)
    /\ asm' = IF cluster.resolver.err
              THEN [pc |-> "done", httpRoutePolicies |-> asm.httpRoutePolicies,
                    consulted |-> TRUE, remaining |-> {},
                    trafficMatches |-> <<>>,
                    result |-> Returned(NilPolicy, TRUE)]
              ELSE [asm EXCEPT !.pc = "range", !.consulted = TRUE,
                       !.remaining = DOMAIN cluster.resolver.protocolToPortMap]
    /\ UNCHANGED <<cluster, last, tr, ext>>

\* One iteration of for port, appProtocol := range protocolToPortMap: the map
\* yields its ports in an order of its own.
RangePort ==
    /\ asm.pc = "range"
    /\ \E port \in asm.remaining :
          asm' = [asm EXCEPT
                     !.remaining = @ \ {port},
                     !.trafficMatches = @ \o
                         TrafficMatchesOfPort(port,
                             cluster.resolver.protocolToPortMap[port],
                             cluster.useHTTPSIngress)]
    /\ UNCHANGED <<cluster, last, tr, ext>>

\* return &trafficpolicy.IngressTrafficPolicy{...}, nil
ReturnPolicy ==
    /\ asm.pc = "range"
    /\ asm.remaining = {}
    /\ asm' = [pc |-> "done", httpRoutePolicies |-> asm.httpRoutePolicies,
               consulted |-> asm.consulted, remaining |-> {},
               trafficMatches |-> asm.trafficMatches,
               result |-> Returned([nil |-> FALSE,
                                    TrafficMatches |-> asm.trafficMatches,
                                    HTTPRoutePolicies |-> asm.httpRoutePolicies],
                                   FALSE)]
    /\ UNCHANGED <<cluster, last, tr, ext>>

\* The policy of the service is generated again, the cluster unchanged.
CallAgain ==
    /\ asm.pc = "done"
    /\ last' = [called |-> TRUE, result |-> asm.result]
    /\ asm' = StartOfCall
    /\ UNCHANGED <<cluster, tr, ext>>

Next ==
    \/ GetRoutes
    \/ ReturnNoRoutes
    \/ Resolve
    \/ RangePort
    \/ ReturnPolicy
    \/ CallAgain

Spec == Init /\ [][Next]_vars

----------------------------------------------------------------------------
(* Claims about the extractors (SpecExtract) *)

\* The hostname a rule declares: the wildcard for an unset host.
HostnameOfRule(rule) == IF rule.Host = "" THEN "*" ELSE rule.Host

SupportedPathTypes ==
    {PathTypeExact, PathTypePrefix, PathTypeImplementationSpecific, PathTypeNil}

\* The declarations of ingress objects l that give hostname h a rule:
\* <<i, 0, 0>> for the default backend of object i when it is the service,
\* <<i, j, k>> for path k of rule j of object i when its backend is the
\* service and its path type is supported.
Declarations(l, h) ==
    {<<i, 0, 0>> : i \in {n \in 1..Len(l) :
                             h = "*" /\ l[n].DefaultBackend = SvcName}}
    \cup
    UNION {UNION {{<<i, j, k>> : k \in {n \in 1..Len(l[i].Rules[j].Paths) :
                        /\ HostnameOfRule(l[i].Rules[j]) = h
                        /\ l[i].Rules[j].Paths[n].Backend = SvcName
                        /\ l[i].Rules[j].Paths[n].PathType \in SupportedPathTypes}}
                  : j \in 1..Len(l[i].Rules)}
           : i \in 1..Len(l)}

\* Declared at or before: by object, then rule, then path.
NotAfter(c, d) ==
    \/ c[1] < d[1]
    \/ c[1] = d[1] /\ c[2] < d[2]
    \/ c[1] = d[1] /\ c[2] = d[2] /\ c[3] <= d[3]

\* The place of declaration c among the declarations ds, in declared order.
PlaceOf(c, ds) == Cardinality({d \in ds : NotAfter(d, c)})

\* The rule a declaration stands for.
RuleDeclared(l, c) ==
    IF c[2] = 0
    THEN NewRule(WildCardRouteMatch)
    ELSE LET ip == l[c[1]].Rules[c[2]].Paths[c[3]]
         IN  NewRule(HTTPRouteMatchOf(ip.Path, ip.PathType))

ExtractReturned == ext.pc = "returned" /\ ~ext.fetch.err

PoliciesOf(policies, h) ==
    {i \in 1..Len(policies) : h \in HostnameSet(policies[i])}

HostnamesOf(policies) == UNION {HostnameSet(policies[i]) : i \in 1..Len(policies)}

DeclaredHostnames(l) ==
    {"*"} \cup UNION {{HostnameOfRule(l[i].Rules[j]) : j \in 1..Len(l[i].Rules)}
                      : i \in 1..Len(l)}

\* C2: no rule is lost or de-duplicated on merge. For every hostname with a
\* declaration, the extractor output holds exactly one policy, and its rules
\* are the declared ones, one for each, in the order object, rule, path.
C2_NoRuleLostInOrder ==
    ExtractReturned =>
        \A h \in DeclaredHostnames(ext.fetch.ingresses) :
            LET ds == Declarations(ext.fetch.ingresses, h)
                ps == PoliciesOf(ext.out.policies, h)
            IN  ds # {} =>
                  /\ Cardinality(ps) = 1
                  /\ \A i \in ps :
                        /\ Len(ext.out.policies[i].Rules) = Cardinality(ds)
                        /\ \A c \in ds :
                              ext.out.policies[i].Rules[PlaceOf(c, ds)]
                                  = RuleDeclared(ext.fetch.ingresses, c)

\* Two rules for host a.com, a Prefix path and then an Exact path, gave one
\* policy for a.com whose rules are regex /a(/.*)?$ and then exact /a.
C2_Witness ==
    /\ ExtractReturned
    /\ Cardinality({<<c[1], c[2]>> :
                       c \in Declarations(ext.fetch.ingresses, "a.com")}) = 2
    /\ \E i \in 1..Len(ext.out.policies) :
          /\ ext.out.policies[i].Hostnames = <<"a.com">>
          /\ Len(ext.out.policies[i].Rules) = 2
          /\ ext.out.policies[i].Rules[1].Route.HTTPRouteMatch.Path
                = <<"/", "a">> \o prefixMatchPathElementsRegex
          /\ ext.out.policies[i].Rules[1].Route.HTTPRouteMatch.PathMatchType
                = PathMatchRegex
          /\ ext.out.policies[i].Rules[2].Route.HTTPRouteMatch.Path = <<"/", "a">>
          /\ ext.out.policies[i].Rules[2].Route.HTTPRouteMatch.PathMatchType
                = PathMatchExact

RulePlaces(policies) ==
    UNION {{<<i, r>> : r \in 1..Len(policies[i].Rules)} : i \in 1..Len(policies)}

AllDeclarations(l) == UNION {Declarations(l, h) : h \in DeclaredHostnames(l)}

\* C10: a path of unknown type is skipped alone. The extractor returns no
\* error; the output has one rule for every other declaration (so the other
\* paths, rules and objects are all translated); no policy of the output is
\* without rules, and the hostnames of the output are those with at least
\* one declaration that gave a rule.
C10_UnknownPathTypeSkippedAlone ==
    ExtractReturned =>
        /\ ~ext.out.err
        /\ Cardinality(RulePlaces(ext.out.policies))
              = Cardinality(AllDeclarations(ext.fetch.ingresses))
        /\ \A i \in 1..Len(ext.out.policies) :
              Len(ext.out.policies[i].Rules) > 0
        /\ HostnamesOf(ext.out.policies)
              = {h \in DeclaredHostnames(ext.fetch.ingresses) :
                    Declarations(ext.fetch.ingresses, h) # {}}

\* An object with a rule for a.com whose only path is of unknown type, and
\* then a rule for the unset host with an Exact path: no error, no policy and
\* no hostname for a.com, and the policy of the second rule with its rule.
C10_Witness ==
    /\ ExtractReturned
    /\ Len(ext.fetch.ingresses) = 1
    /\ Len(ext.fetch.ingresses[1].Rules) = 2
    /\ LET r1 == ext.fetch.ingresses[1].Rules[1]
           r2 == ext.fetch.ingresses[1].Rules[2]
       IN  /\ r1.Host = "a.com" /\ Len(r1.Paths) = 1
           /\ r1.Paths[1].PathType = PathTypeBogus
           /\ r1.Paths[1].Backend = SvcName
           /\ r2.Host = "" /\ Len(r2.Paths) = 1
           /\ r2.Paths[1].PathType = PathTypeExact
           /\ r2.Paths[1].Backend = SvcName
    /\ ~ext.out.err
    /\ Len(ext.out.policies) = 1
    /\ ext.out.policies[1].Hostnames = <<"*">>
    /\ Len(ext.out.policies[1].Rules) = 1
    /\ ext.out.policies[1].Rules[1].Route.HTTPRouteMatch.PathMatchType
          = PathMatchExact

\* No merge of an extractor run meets a partial overlap of hostnames: every
\* candidate and every policy of the list has exactly one hostname.
NoAmbiguousOverlapReached ==
    ext.pc = "returned" =>
        /\ ~ext.out.ambiguous
        /\ \A i \in 1..Len(ext.out.policies) :
              Len(ext.out.policies[i].Hostnames) = 1

----------------------------------------------------------------------------
(* Claims about the assembler (Spec) *)

RoutesKnown == asm.pc \in {"routes", "range", "done"}

CallDone == asm.pc = "done"

NothingReturned == Returned(NilPolicy, FALSE)

\* C1: the route-policy list the assembler works with never holds two
\* policies whose hostname sets are not disjoint.
C1_HostnamesDisjoint ==
    RoutesKnown =>
        \A i, j \in 1..Len(asm.httpRoutePolicies) :
            i # j => HostnameSet(asm.httpRoutePolicies[i])
                        \cap HostnameSet(asm.httpRoutePolicies[j]) = {}

\* C4: a fetch error of either version never fails the call (the call fails
\* only on a resolver error), the version that failed contributes nothing
\* and the policies of the other are the routes; the resolver is consulted
\* only with routes, and its error makes the call return nil and an error.
C4_FetchErrorsTolerated ==
    CallDone =>
        /\ asm.result.err => (asm.consulted /\ cluster.resolver.err)
        /\ (asm.consulted /\ cluster.resolver.err)
              => asm.result = Returned(NilPolicy, TRUE)
        /\ asm.consulted => asm.httpRoutePolicies # <<>>
        /\ cluster.v1.err =>
              asm.httpRoutePolicies =
                 (IF cluster.v1beta1.err THEN <<>>
                  ELSE getIngressPoliciesNetworkingV1beta1(cluster.v1beta1).policies)
        /\ cluster.v1beta1.err =>
              asm.httpRoutePolicies =
                 (IF cluster.v1.err THEN <<>>
                  ELSE getIngressPoliciesNetworkingV1(cluster.v1).policies)
        /\ ~asm.result.policy.nil =>
              asm.result.policy.HTTPRoutePolicies = asm.httpRoutePolicies

\* The v1 fetch failed and the call returned the policy of the v1beta1
\* objects.
C4_Witness ==
    /\ CallDone
    /\ cluster.v1.err
    /\ ~asm.result.err
    /\ ~asm.result.policy.nil
    /\ Len(asm.result.policy.HTTPRoutePolicies) >= 1
    /\ asm.result.policy.HTTPRoutePolicies
          = getIngressPoliciesNetworkingV1beta1(cluster.v1beta1).policies

NothingDeclared(fetch) == fetch.err \/ AllDeclarations(fetch.ingresses) = {}

\* C5: with no route policy (no ingress object, none whose backends are the
\* service, or only skipped paths) the call returns (nil, nil) without
\* consulting the resolver, failing or not; a policy returned has at least
\* one route policy.
C5_NoRoutesNoPolicy ==
    CallDone =>
        /\ asm.httpRoutePolicies = <<>> =>
              asm.result = NothingReturned /\ ~asm.consulted
        /\ (NothingDeclared(cluster.v1) /\ NothingDeclared(cluster.v1beta1))
              => asm.result = NothingReturned
        /\ ~asm.result.policy.nil =>
              Len(asm.result.policy.HTTPRoutePolicies) >= 1

\* The only path for the service is of unknown type and the resolver would
\* fail: the call returned (nil, nil).
C5_Witness ==
    /\ CallDone
    /\ cluster.resolver.err
    /\ ~cluster.v1.err
    /\ Len(cluster.v1.ingresses) = 1
    /\ Len(cluster.v1.ingresses[1].Rules) = 1
    /\ Len(cluster.v1.ingresses[1].Rules[1].Paths) = 1
    /\ cluster.v1.ingresses[1].Rules[1].Paths[1].PathType = PathTypeBogus
    /\ cluster.v1.ingresses[1].Rules[1].Paths[1].Backend = SvcName
    /\ asm.result = NothingReturned

PolicyReturned == CallDone /\ ~asm.result.policy.nil

MatchesAt(ms, port) == {n \in 1..Len(ms) : ms[n].Port = port}

\* C6: a policy returned has, for each port resolved to HTTP, one match
\* (HTTP, no server names, ingress_<svc>_<port>_http) when HTTPS ingress is
\* off, and two when it is on (HTTPS, client certificates not validated:
\* ingress_<svc>_<port>_https without server names, then
\* ingress_<svc>_<port>_https_with_sni with the service's server name); a
\* port of another protocol has none.
C6_TrafficMatchesPerPort ==
    PolicyReturned =>
        LET ms == asm.result.policy.TrafficMatches
            m == cluster.resolver.protocolToPortMap
        IN  /\ \A n \in 1..Len(ms) : ms[n].Port \in DOMAIN m
            /\ \A port \in DOMAIN m :
                  IF m[port] # "http" THEN MatchesAt(ms, port) = {}
                  ELSE IF ~cluster.useHTTPSIngress
                  THEN \E n \in 1..Len(ms) :
                          /\ MatchesAt(ms, port) = {n}
                          /\ ms[n].Name = <<"ingress", "svc", port, "http">>
                          /\ ms[n].Protocol = "http"
                          /\ ms[n].ServerNames = <<>>
                  ELSE \E n \in 1..(Len(ms) - 1) :
                          /\ MatchesAt(ms, port) = {n, n + 1}
                          /\ ms[n].Name = <<"ingress", "svc", port, "https">>
                          /\ ms[n].ServerNames = <<>>
                          /\ ms[n + 1].Name
                                = <<"ingress", "svc", port, "https", "with", "sni">>
                          /\ ms[n + 1].ServerNames = <<ServerName>>
                          /\ \A k \in {n, n + 1} :
                                /\ ms[k].Protocol = "https"
                                /\ ms[k].SkipClientCertValidation

\* With HTTPS ingress on, a policy was returned for a service with an HTTP
\* port and a port of another protocol: two matches.
C6_Witness ==
    /\ PolicyReturned
    /\ cluster.useHTTPSIngress
    /\ \E p, q \in DOMAIN cluster.resolver.protocolToPortMap :
          /\ cluster.resolver.protocolToPortMap[p] = "http"
          /\ cluster.resolver.protocolToPortMap[q] = "tcp"
    /\ Len(asm.result.policy.TrafficMatches) = 2

\* C7: a call returns the traffic matches the previous call returned, in
\* the same order, the cluster being the same.
C7_SameMatchesEachCall ==
    (/\ CallDone
     /\ last.called
     /\ ~last.result.policy.nil
     /\ ~asm.result.policy.nil) =>
        asm.result.policy.TrafficMatches = last.result.policy.TrafficMatches

----------------------------------------------------------------------------
(* Claims about the path translation (SpecPath) *)

\* p without its trailing "/" characters, stated without recursion: the
\* longest prefix of p that does not end in "/".
StripTrailingSlashes(p) ==
    LET k == CHOOSE n \in 0..Len(p) :
                 /\ n = 0 \/ p[n] # "/"
                 /\ \A i \in (n + 1)..Len(p) : p[i] = "/"
    IN  SubSeq(p, 1, k)

Front(s) == SubSeq(s, 1, Len(s) - 1)

PrefixTranslated ==
    tr.pc \in {"translated", "matched"} /\ tr.pathType = PathTypePrefix

\* The translated path is p + "/" for some p: it ends in "/".
EndsInSlash(s) == Len(s) > 0 /\ s[Len(s)] = "/"

\* What a non-root Prefix path p translates to: p stripped, then (/.*)?$.
IsElementPrefixRouteOf(route, p) ==
    /\ route.Path = StripTrailingSlashes(p) \o prefixMatchPathElementsRegex
    /\ route.PathMatchType = PathMatchRegex

\* The translation of p + "/" (the path of the state) is that of p.
SameAsWithoutSlash ==
    LET p == Front(tr.path)
        q == HTTPRouteMatchOf(p, PathTypePrefix)
    IN  /\ tr.route.Path = q.Path
        /\ tr.route.PathMatchType = q.PathMatchType
        /\ IsElementPrefixRouteOf(tr.route, p)

\* C8 as stated: for every p other than "/", the empty path included,
\* translating p + "/" with type Prefix gives what translating p gives, p
\* stripped of its trailing "/" followed by (/.*)?$ with kind Regex; only "/"
\* itself gives pattern "/" with kind Prefix.
C8_AsStated ==
    PrefixTranslated =>
        /\ (EndsInSlash(tr.path) /\ Front(tr.path) # <<"/">>)
               => SameAsWithoutSlash
        /\ tr.path # <<"/">> => IsElementPrefixRouteOf(tr.route, tr.path)
        /\ tr.path = <<"/">> =>
               tr.route.Path = <<"/">> /\ tr.route.PathMatchType = PathMatchPrefix

\* C8 amended: trailing-slash idempotence of the Prefix translation for every
\* non-empty p other than "/": translating p + "/" gives what translating p
\* gives. Every path other than "/" (the empty one included) translates to
\* itself stripped of its trailing "/" followed by (/.*)?$ with kind Regex,
\* and "/" (which is also "" + "/") to pattern "/" with kind Prefix.
C8_TrailingSlashIdempotent ==
    PrefixTranslated =>
        /\ (EndsInSlash(tr.path) /\ Front(tr.path) \notin {<<>>, <<"/">>})
               => SameAsWithoutSlash
        /\ tr.path # <<"/">> => IsElementPrefixRouteOf(tr.route, tr.path)
        /\ tr.path = <<"/">> =>
               tr.route.Path = <<"/">> /\ tr.route.PathMatchType = PathMatchPrefix

\* A Prefix path with a letter and trailing "/" characters has been translated.
C8_Witness ==
    /\ tr.pc = "translated"
    /\ tr.pathType = PathTypePrefix
    /\ tr.path = <<"/", "a", "/">>
    /\ tr.route.Path = <<"/", "a">> \o prefixMatchPathElementsRegex

\* C9 as stated, for the paths the API server admits (they begin with "/")
\* whose pattern is a regular expression that compiles: the route of a
\* non-root Prefix path p matches the request paths p and p + "/anything",
\* and does not match p + "suffix" when no "/" separates p from the suffix (p
\* does not end in "/", the suffix does not start with one).
C9_ElementWisePrefix ==
    (/\ tr.pc = "matched"
     /\ tr.pathType = PathTypePrefix
     /\ tr.path # <<"/">>
     /\ HasPrefix(tr.path, <<"/">>)
     /\ RegexCompiles(RegexHead(tr.route.Path))) =>
        /\ tr.extra = <<>> => tr.verdict
        /\ (tr.extra # <<>> /\ tr.extra[1] = "/") => tr.verdict
        /\ (tr.extra # <<>> /\ tr.extra[1] # "/" /\ ~EndsInSlash(tr.path))
               => ~tr.verdict

====
